---- MODULE Spec2Model ----
(***************************************************************************)
(* Model of the math tutor backend: the sliding-window rate limiter        *)
(* (rate_limiting.py), the chat handler (main.py) and the RAG pipeline     *)
(* (rag_service_gemini.py, error_handling.py).                             *)
(*                                                                         *)
(* Time is time.time() in whole ticks.  Two specifications are given:      *)
(*   SpecLimiter  the AdvancedRateLimiter object under arbitrary calls;    *)
(*   Spec         chat handler tasks on the server's event loop, each      *)
(*                passing the limit decorator of the route, then running   *)
(*                the limiter check and the pipeline.                      *)
(***************************************************************************)
EXTENDS Integers, Naturals, Sequences, FiniteSets, TLC

\* ------------------------------------------------------------------ bounds
\* Last tick of the clock.
MaxTime == 4
\* window_seconds of is_allowed (60 in the program), in ticks.
WindowSeconds == 2
\* max_requests of is_allowed (settings.max_requests_per_minute, 60 in the
\* program).
MaxRequests == 2
\* Cap on the is_allowed calls counted for one key within one clock tick.
MaxChecksPerTick == 3
\* Cap on the requests the limit decorator counts for one key in one window.
MaxHits == 3

Keys == {"k1", "k2"}
Times == 0..MaxTime

\* The chat requests in flight at once, and the client they come from.
Tasks == {"t1", "t2"}
NoTask == "none"
Clients == {"k1"}

NoCall == [op |-> "none", key |-> "k1", time |-> 0, result |-> 0,
           afterDenied |-> FALSE]

VARIABLES
    now,        \* time.time()
    requests,   \* AdvancedRateLimiter.requests: key -> deque of timestamps
    last,       \* the last limiter call: operation, key, time, returned value
    admitted,   \* history: per key, the times of the calls that returned True
    checks,     \* history: per key, is_allowed calls made during this tick
    grants,     \* history: per key, those of them that returned True
    fresh,      \* history: per key, the window was empty (after eviction) at
                \* the first is_allowed call of this tick
    denied,     \* history: per key, the latest is_allowed call returned False
    hits,       \* limiter of main.py: key -> requests counted in its window
    expires,    \* limiter of main.py: key -> when that window ends
    running,    \* the task the event loop is executing, NoTask when it is free
    pc,         \* per task: where its chat handler stands
    key,        \* per task: get_rate_limit_key(request)
    msg,        \* per task: chat_request.message
    curTime,    \* per task: current_time of its is_allowed call
    allowed,    \* per task: what check_rate_limit returned
    validated,  \* per task: validate_input has been called
    storeCalls, \* per task: index.query calls made
    context,    \* per task: what _get_relevant_context returned, and how
                \* many matches the store had found
    prompt,     \* per task: what _construct_enhanced_prompt returned
    maxRetries, \* per task: max_retries of _call_gemini_with_retry
    attempt,    \* per task: the loop variable of _call_gemini_with_retry
    genCalls,   \* per task: model.generate_content calls made
    genLog,     \* per task: the outcome of each of them, in order, and the
                \* time.sleep argument that followed it (0: no sleep)
    wakeAt,     \* per task: when its time.sleep returns
    raw,        \* per task: what _call_gemini_with_retry returned
    answer,     \* per task: what generate_response returned
    err,        \* per task: the exception generate_response raised
    response,   \* per task: the HTTP response of the handler
    arg,        \* the argument of the function call under study
    res,        \* what that call returned, NoResult before it returns
    sent        \* history: an error response sent earlier, and its cause

limiterHist == <<last, admitted, checks, grants, fresh, denied>>
limiterVars == <<now, requests, last, admitted, checks, grants, fresh, denied>>
pipelineVars == <<validated, storeCalls, context, prompt, maxRetries, attempt,
                  genCalls, genLog, wakeAt, raw, answer, err>>
decoratorVars == <<hits, expires>>
taskVars == <<decoratorVars, running, pc, key, msg, curTime, allowed, response,
              pipelineVars>>

callVars == <<arg, res, sent>>

vars == <<limiterVars, taskVars, callVars>>

\* ------------------------------------------------- rate_limiting.py, pure

\* The deque after popleft() while its head is older than t - w.
RECURSIVE EvictOld(_, _, _)
EvictOldNever(q, t, w) == q
EvictOldOnce(q, t, w) == IF q # <<>> /\ Head(q) < t - w THEN Tail(q) ELSE q
EvictOld(q, t, w) ==
    IF q # <<>> /\ Head(q) < t - w
    THEN EvictOld(Tail(q), t, w)
    ELSE q

\* not (len(self.requests[ip]) >= max_requests)
UnderLimitOffByOne(q, max) == ~(Len(q) > max)
UnderLimit(q, max) == ~(Len(q) >= max)

\* The deque is_allowed leaves behind at time t.
IsAllowedDequeRecordsAll(q, t, max, w) == Append(EvictOld(q, t, w), t)
IsAllowedDeque(q, t, max, w) ==
    LET kept == EvictOld(q, t, w)
    IN  IF UnderLimit(kept, max) THEN Append(kept, t) ELSE kept

\* The value is_allowed returns at time t.
IsAllowedResult(q, t, max, w) == UnderLimit(EvictOld(q, t, w), max)

\* get_reset_time: the deque is read as stored, nothing is evicted.
ResetTime(q, t, w) == IF q = <<>> THEN t ELSE Head(q) + w


\* ------------------------------------------------------- text, as in Python
\* A text is a sequence of characters.  A printable ASCII character is the
\* one-character string, tab, line feed, carriage return and form feed are
\* "\t", "\n", "\r" and "\f", and every other character is "U+" and the four
\* hexadecimal digits of its code point ("U+212A" is the Kelvin sign).  The
\* alphabet is ASCII, Latin-1, the whitespace of str.isspace() and the
\* characters that case folding relates to an ASCII letter.

\* The cased characters of the alphabet that one character replaces under
\* str.lower(), and what replaces them.
UpperCase == <<"A", "B", "C", "D", "E", "F", "G", "H", "I", "J", "K", "L",
               "M", "N", "O", "P", "Q", "R", "S", "T", "U", "V", "W", "X",
               "Y", "Z", "U+00C0", "U+00C1", "U+00C2", "U+00C3", "U+00C4",
               "U+00C5", "U+00C6", "U+00C7", "U+00C8", "U+00C9", "U+00CA",
               "U+00CB", "U+00CC", "U+00CD", "U+00CE", "U+00CF", "U+00D0",
               "U+00D1", "U+00D2", "U+00D3", "U+00D4", "U+00D5", "U+00D6",
               "U+00D8", "U+00D9", "U+00DA", "U+00DB", "U+00DC", "U+00DD",
               "U+00DE", "U+212A">>
LowerCase == <<"a", "b", "c", "d", "e", "f", "g", "h", "i", "j", "k", "l",
               "m", "n", "o", "p", "q", "r", "s", "t", "u", "v", "w", "x",
               "y", "z", "U+00E0", "U+00E1", "U+00E2", "U+00E3", "U+00E4",
               "U+00E5", "U+00E6", "U+00E7", "U+00E8", "U+00E9", "U+00EA",
               "U+00EB", "U+00EC", "U+00ED", "U+00EE", "U+00EF", "U+00F0",
               "U+00F1", "U+00F2", "U+00F3", "U+00F4", "U+00F5", "U+00F6",
               "U+00F8", "U+00F9", "U+00FA", "U+00FB", "U+00FC", "U+00FD",
               "U+00FE", "k">>
LowerOf ==
    [c \in {UpperCase[i] : i \in DOMAIN UpperCase} |->
        LowerCase[CHOOSE i \in DOMAIN UpperCase : UpperCase[i] = c]]

\* I with dot above, the one character str.lower() replaces by two: i and
\* the combining dot above.
DottedI == "U+0130"
DottedILower == <<"i", "U+0307">>

\* c.lower(), a text.
LowerChar(c) ==
    IF c = DottedI THEN DottedILower
    ELSE IF c \in DOMAIN LowerOf THEN <<LowerOf[c]>>
    ELSE <<c>>

\* s[i:].lower()
RECURSIVE LowerFrom(_, _)
LowerFrom(s, i) ==
    LET dotted == {a \in i..Len(s) : s[a] = DottedI}
        upto(e) == [j \in 1..(e - i + 1) |-> LowerChar(s[i + j - 1])[1]]
    IN  IF dotted = {} THEN upto(Len(s))
        ELSE LET a == CHOOSE x \in dotted : \A y \in dotted : x <= y
             IN  upto(a - 1) \o LowerChar(s[a]) \o LowerFrom(s, a + 1)

\* str.lower()
Lower(s) == LowerFrom(s, 1)

\* The character re.IGNORECASE compares in place of c: its simple lower
\* case, and for the long s, the dotted I and the dotless i the ASCII letter
\* they are equivalent to.
LongS == "U+017F"
DotlessI == "U+0131"
IgnoreCaseChar(c) ==
    IF c = LongS THEN "s"
    ELSE IF c \in {DottedI, DotlessI} THEN "i"
    ELSE IF c \in DOMAIN LowerOf THEN LowerOf[c]
    ELSE c
IgnoreCase(s) == [i \in 1..Len(s) |-> IgnoreCaseChar(s[i])]

\* str.isspace(), the characters str.strip() and str.split() take for
\* whitespace.
Whitespace ==
    {" ", "\t", "\n", "\r", "\f", "U+000B", "U+001C", "U+001D",
     "U+001E", "U+001F", "U+0085", "U+00A0", "U+1680", "U+2000",
     "U+2001", "U+2002", "U+2003", "U+2004", "U+2005", "U+2006",
     "U+2007", "U+2008", "U+2009", "U+200A", "U+2028", "U+2029",
     "U+202F", "U+205F", "U+3000"}
IsSpace(c) == c \in Whitespace

\* p occurs in s at index i.
StartsAt(s, p, i) ==
    /\ i >= 1
    /\ i + Len(p) - 1 <= Len(s)
    /\ \A j \in 1..Len(p) : s[i + j - 1] = p[j]

\* p in s
Contains(s, p) == \E i \in 1..Len(s) : StartsAt(s, p, i)

\* s[:n]
Prefix(s, n) == SubSeq(s, 1, IF Len(s) < n THEN Len(s) ELSE n)

\* str.strip(): from the first to the last non-space character.
Strip(s) ==
    LET solid == {i \in 1..Len(s) : ~IsSpace(s[i])}
    IN  IF solid = {} THEN <<>>
        ELSE SubSeq(s, CHOOSE i \in solid : \A j \in solid : i <= j,
                       CHOOSE i \in solid : \A j \in solid : j <= i)

\* str.split(): the maximal runs of non-space characters, in order.
RECURSIVE SplitFrom(_, _)
SplitFrom(s, i) ==
    LET solid == {a \in i..Len(s) : ~IsSpace(s[a])}
    IN  IF solid = {} THEN <<>>
        ELSE LET a == CHOOSE x \in solid : \A y \in solid : x <= y
                 ends == {e \in a..Len(s) : e = Len(s) \/ IsSpace(s[e + 1])}
                 e == CHOOSE x \in ends : \A y \in ends : x <= y
             IN  <<SubSeq(s, a, e)>> \o SplitFrom(s, e + 1)
Split(s) == SplitFrom(s, 1)

\* sep.join(parts)
RECURSIVE Join(_, _)
Join(parts, sep) ==
    IF parts = <<>> THEN <<>>
    ELSE IF Len(parts) = 1 THEN parts[1]
    ELSE parts[1] \o sep \o Join(Tail(parts), sep)

\* ------------------------------------------- error_handling.validate_input

MaxMessageLength == 2000
RepetitionMinWords == 10

DangerousPatterns ==
    { <<"<", "s", "c", "r", "i", "p", "t">>,
      <<"j", "a", "v", "a", "s", "c", "r", "i", "p", "t", ":">>,
      <<"d", "a", "t", "a", ":">>,
      <<"v", "b", "s", "c", "r", "i", "p", "t", ":">>,
      <<"o", "n", "l", "o", "a", "d", "=">>,
      <<"o", "n", "e", "r", "r", "o", "r", "=">>,
      <<"o", "n", "c", "l", "i", "c", "k", "=">> }

\* max(word_counts.values())
MaxRepetition(words) ==
    LET count(w) == Cardinality({i \in DOMAIN words : words[i] = w})
    IN  CHOOSE n \in 0..Len(words) :
            /\ \A i \in DOMAIN words : count(words[i]) <= n
            /\ (words = <<>> \/ \E i \in DOMAIN words : count(words[i]) = n)

\* validate_input, lines 130-136; max_repetition > len(words) * 0.5 is
\* 2 * max_repetition > len(words).
ExcessiveRepetitionFromHalf(words) ==
    /\ Len(words) > RepetitionMinWords
    /\ 2 * MaxRepetition(words) >= Len(words)
ExcessiveRepetition(words) ==
    /\ Len(words) > RepetitionMinWords
    /\ 2 * MaxRepetition(words) > Len(words)

\* The message of the ValidationError validate_input raises, "ok" when it
\* returns.
ValidateInput(m) ==
    IF m = <<>> \/ Strip(m) = <<>>
    THEN "Message cannot be empty"
    ELSE IF Len(m) > MaxMessageLength
    THEN "Message is too long. Please keep it under 2000 characters."
    ELSE IF \E p \in DangerousPatterns : Contains(Lower(m), p)
    THEN "Message contains potentially harmful content"
    ELSE IF ExcessiveRepetition(Split(m))
    THEN "Message appears to contain excessive repetition"
    ELSE "ok"

\* --------------------------------------- error_handling.sanitize_response

MaxResponseLength == 5000

ScriptOpen == <<"<", "s", "c", "r", "i", "p", "t">>
ScriptClose == <<"<", "/", "s", "c", "r", "i", "p", "t", ">">>
JavascriptScheme == <<"j", "a", "v", "a", "s", "c", "r", "i", "p", "t", ":">>
DataScheme == <<"d", "a", "t", "a", ":">>
Ellipsis == <<".", ".", ".">>

\* re.sub(r'<script.*?</script>', '', s, flags=DOTALL | IGNORECASE): from the
\* left, each "<script" that a "</script>" follows is removed up to the
\* nearest such close.
RECURSIVE RemoveScriptsFrom(_, _)
RemoveScriptsFrom(s, i) ==
    LET low == IgnoreCase(s)
        closes(a) == {c \in (a + Len(ScriptOpen))..Len(s) :
                          StartsAt(low, ScriptClose, c)}
        opens == {a \in i..Len(s) : StartsAt(low, ScriptOpen, a) /\ closes(a) # {}}
    IN  IF opens = {} THEN SubSeq(s, i, Len(s))
        ELSE LET a == CHOOSE x \in opens : \A y \in opens : x <= y
                 c == CHOOSE x \in closes(a) : \A y \in closes(a) : x <= y
             IN  SubSeq(s, i, a - 1) \o RemoveScriptsFrom(s, c + Len(ScriptClose))
RemoveScripts(s) == RemoveScriptsFrom(s, 1)

\* re.sub(p, '', s, flags=IGNORECASE) for a literal p: the non-overlapping
\* occurrences of p, from the left, are removed.
RECURSIVE RemoveAllFrom(_, _, _)
RemoveAllFrom(s, p, i) ==
    LET low == IgnoreCase(s)
        found == {a \in i..Len(s) : StartsAt(low, p, a)}
    IN  IF found = {} THEN SubSeq(s, i, Len(s))
        ELSE LET a == CHOOSE x \in found : \A y \in found : x <= y
             IN  SubSeq(s, i, a - 1) \o RemoveAllFrom(s, p, a + Len(p))
RemoveAll(s, p) == RemoveAllFrom(s, p, 1)

\* if len(response) > 5000: response = response[:5000] + "..."
TruncateNever(s) == s
Truncate(s) ==
    IF Len(s) > MaxResponseLength THEN Prefix(s, MaxResponseLength) \o Ellipsis ELSE s

SanitizeResponse(s) ==
    Strip(Truncate(RemoveAll(RemoveAll(RemoveScripts(s), JavascriptScheme),
                             DataScheme)))

\* ---------------------------------------------- rag_service_gemini, pure

\* settings.similarity_threshold (0.7); scores are in hundredths.
SimilarityThreshold == 70
DedupPrefixLength == 50
DefaultMaxRetries == 3

\* A match of the store: whether its metadata carries a text, the text,
\* whether that text is a str, and the score.
Match(has, text, str, score) ==
    [hasText |-> has, text |-> text, isStr |-> str, score |-> score]

\* _get_relevant_context, lines 129-156: the matches with a text, kept when
\* score >= threshold, store order; documents and scores stay aligned.
RelevantMatches(matches) ==
    SelectSeq(matches, LAMBDA m : m.hasText /\ m.score >= SimilarityThreshold)

\* _get_relevant_context, lines 134-143: documents and similarity_scores,
\* one entry each per match whose metadata carries a text.
RECURSIVE ExtractedDocs(_)
ExtractedDocs(matches) ==
    IF matches = <<>> THEN <<>>
    ELSE IF Head(matches).hasText
         THEN <<Head(matches).text>> \o ExtractedDocs(Tail(matches))
         ELSE ExtractedDocs(Tail(matches))
RECURSIVE ExtractedScores(_)
ExtractedScores(matches) ==
    IF matches = <<>> THEN <<>>
    ELSE IF Head(matches).hasText
         THEN <<Head(matches).score>> \o ExtractedScores(Tail(matches))
         ELSE ExtractedScores(Tail(matches))

\* _get_relevant_context, line 150.
AboveThresholdStrictly(score) == score > SimilarityThreshold
AboveThreshold(score) == score >= SimilarityThreshold

\* _get_relevant_context, lines 145-152: the loop over zip(documents,
\* similarity_scores) from position i on.
RECURSIVE FilterContext(_, _, _)
FilterContext(docs, scores, i) ==
    IF i > Len(docs) \/ i > Len(scores) THEN [docs |-> <<>>, scores |-> <<>>]
    ELSE LET rest == FilterContext(docs, scores, i + 1)
         IN  IF AboveThreshold(scores[i])
             THEN [docs |-> <<docs[i]>> \o rest.docs,
                   scores |-> <<scores[i]>> \o rest.scores]
             ELSE rest

\* _get_relevant_context, lines 129-156: (filtered_docs, filtered_scores).
RelevantContext(matches) ==
    FilterContext(ExtractedDocs(matches), ExtractedScores(matches), 1)

\* _construct_enhanced_prompt, lines 165-174: a chunk is kept when no earlier
\* chunk has the same first 50 characters.
\* line 171: chunk_hash = chunk[:50].
ChunkHashWhole(chunk) == chunk
ChunkHash(chunk) == Prefix(chunk, DedupPrefixLength)

RECURSIVE UniqueContextFrom(_, _, _)
UniqueContextFrom(docs, i, seen) ==
    IF i > Len(docs) THEN <<>>
    ELSE IF ChunkHash(docs[i]) \in seen
         THEN UniqueContextFrom(docs, i + 1, seen)
         ELSE <<docs[i]>> \o UniqueContextFrom(docs, i + 1,
                                 seen \cup {ChunkHash(docs[i])})
UniqueContext(docs) == UniqueContextFrom(docs, 1, {})

\* The prompt: the fixed template with the context block and the question.
ConstructPrompt(query, docs) ==
    [context |-> Join(UniqueContext(docs), <<"\n", "\n">>), question |-> query]


\* ------------------------------------------------------- values and inputs

NoContext == [got |-> FALSE, found |-> 0, matches |-> <<>>]
NoPrompt == [context |-> <<>>, question |-> <<>>]
NoAnswer == [kind |-> "none", text |-> <<>>]
NoError == [type |-> "none", text |-> <<>>]
NoResponse == [status |-> 0]
NoArg == [kind |-> "none"]
NoResult == [done |-> FALSE]
NoSent == [type |-> "none", message |-> <<>>, cause |-> <<>>]

\* The fixed reply of generate_response, line 261.
NoInfoAnswer == [kind |-> "noinfo", text |-> <<>>]

\* Messages a client may send: a question, a blank message, a script tag.
MsgSolve == <<"s", "o", "l", "v", "e", " ", "x">>
MsgBlank == <<" ">>
MsgScript == <<"<", "S", "c", "r", "i", "p", "t", ">">>
Messages == {MsgSolve, MsgBlank, MsgScript}

\* str(e) of the exceptions the store and the model may raise.
ExcTexts == {"timeout", "quota"}

TextA == <<"a">>
TextB == <<"b">>
TextC == <<"c">>

\* What index.query may return: no match; scores 0.9, 0.65, 0.71; one match
\* below the threshold; two equal matches at the threshold; a match without
\* a text; a match whose text is not a str.
StoreResults ==
    { <<>>,
      <<Match(TRUE, TextA, TRUE, 90), Match(TRUE, TextB, TRUE, 65),
        Match(TRUE, TextC, TRUE, 71)>>,
      <<Match(TRUE, TextA, TRUE, 65)>>,
      <<Match(TRUE, TextA, TRUE, 70), Match(TRUE, TextA, TRUE, 70)>>,
      <<Match(FALSE, <<>>, TRUE, 95)>>,
      <<Match(TRUE, <<>>, FALSE, 90)>> }

StoreOutcomes ==
    {[raises |-> TRUE, exc |-> e, matches |-> <<>>] : e \in ExcTexts}
    \cup {[raises |-> FALSE, exc |-> "", matches |-> ms] : ms \in StoreResults}

\* response.text of the model.
RawTexts ==
    { <<"H", "i">>,
      <<"<", "s", "c", "r", "i", "p", "t", ">", "x", "<", "/", "s", "c", "r",
        "i", "p", "t", ">", "O", "k", " ">> }

GenOutcomes ==
    {[ok |-> TRUE, text |-> r, exc |-> ""] : r \in RawTexts}
    \cup {[ok |-> FALSE, text |-> <<>>, exc |-> e] : e \in ExcTexts}

Docs(matches) == [i \in DOMAIN matches |-> matches[i].text]

\* ------------------------------------------------------------- exceptions

\* generate_response, line 252: what validate_input(query) raises.
InputErrorSkipped(m) == NoError
InputError(m) ==
    IF ValidateInput(m) = "ok" THEN NoError
    ELSE [type |-> "ValidationError", text |-> <<ValidateInput(m)>>]

\* _get_relevant_context, lines 158-160: any exception of the search becomes
\* a VectorDBError.
RetrievalError(exc) ==
    [type |-> "VectorDBError", text |-> <<"Pinecone search failed: ", exc>>]

\* _construct_enhanced_prompt, line 171: chunk[:50] of a chunk that is not a
\* str raises a TypeError.
PromptRaises(matches) == \E i \in DOMAIN matches : ~matches[i].isStr
PromptError == [type |-> "TypeError", text |-> <<"chunk is not a str">>]

\* _call_gemini_with_retry, line 241.
GenerationError(max, exc) ==
    [type |-> "RAGError",
     text |-> <<"Gemini API call failed after ", max, " attempts: ", exc>>]

\* error_handling, lines 9-27: RAGError and its subclasses.
RAGErrorClasses ==
    {"RAGError", "VectorDBError", "OpenAIError", "ValidationError", "RateLimitError"}

\* generate_response, lines 278-284: an instance of RAGError, of whichever
\* subclass, passes as it is; anything else is wrapped into a RAGError.
PipelineErrorReraised(e) == e
PipelineError(e) ==
    IF e.type = "none" \/ e.type \in RAGErrorClasses
    THEN e
    ELSE [type |-> "RAGError",
          text |-> <<"Unexpected error in RAG pipeline: ">> \o e.text]

\* generate_response, line 260: if not context_chunks.
IsEmptyContextNever(matches) == FALSE
IsEmptyContext(matches) == matches = <<>>

\* _call_gemini_with_retry, line 244: the argument of time.sleep.
BackoffConstant(a) == 1
Backoff(a) == 2 ^ a

\* _call_gemini_with_retry, line 240: attempt == max_retries - 1.
LastAttemptOneMore(a, max) == a = max
LastAttempt(a, max) == a = max - 1

\* ------------------------------------------------- main.py, rate_limiting

\* get_rate_limit_info, line 74: the window is the literal 60, which is also
\* the window of every is_allowed call (its default, which chat never
\* overrides).
InfoWindowSeconds == WindowSeconds

\* get_rate_limit_info, line 83: the limit is the literal 60, whatever limit
\* chat hands to check_rate_limit.
InfoMaxRequests == 60

\* get_rate_limit_info at time t, for the deque q of the key.
RateLimitInfo(q, t) ==
    LET count == Cardinality({i \in DOMAIN q : q[i] > t - InfoWindowSeconds})
    IN  [requests_remaining |->
             IF InfoMaxRequests - count > 0 THEN InfoMaxRequests - count ELSE 0,
         reset_time |-> ResetTime(q, t, InfoWindowSeconds),
         current_requests |-> count]

\* The limit decorator of the route, main.py line 83, on the Limiter of line
\* 27: a fixed window of one minute per client address, opened by the first
\* request counted after the previous window ended.  The counter as read at
\* time t, h being the stored counter and e the end of its window.
WindowHits(h, e, t) == IF e <= t THEN 0 ELSE h

\* Every request is counted, and passes when the counter, itself included,
\* does not exceed the limit.
DecoratorAdmits(count, max) == count <= max

\* main.py line 51: a request the decorator refuses is answered by the
\* library's handler for RateLimitExceeded, a 429 with the limit as its
\* error; that handler reads app.state.limiter, which main.py never sets,
\* and when it raises the answer is the 500 of global_exception_handler
\* (line 50, error_handling.py lines 51-68).
DecoratorResponses(max) ==
    { [status |-> 429, error |-> <<"Rate limit exceeded: ", max, " per 1 minute">>],
      [status |-> 500, type |-> "InternalServerError",
       message |-> <<"An unexpected error occurred. Please try again later.">>] }

\* chat, line 90: if not check_rate_limit(...) the handler returns the 429.
AdmitAlways(ok) == TRUE
Admit(ok) == ok

\* chat, lines 92-102.
RateLimitedResponse(info, t) ==
    [status |-> 429, type |-> "RateLimitExceeded",
     message |-> <<"Too many requests. Please slow down.">>,
     retry_after |-> info.reset_time - t]

\* chat, lines 116-133; took is time.time() - start_time.
SuccessResponse(ans, took, info) ==
    [status |-> 200, answer |-> ans, processing_time |-> took,
     rate_limit_info |-> info]

\* chat, lines 135-185.
ErrorResponseLeaky(e) ==
    IF e.type = "ValidationError"
    THEN [status |-> 400, type |-> "ValidationError", message |-> e.text]
    ELSE IF e.type \in {"OpenAIError", "VectorDBError"}
    THEN [status |-> 503, type |-> e.type, message |-> e.text]
    ELSE IF e.type \in {"RAGError", "RateLimitError"}
    THEN [status |-> 500, type |-> "RAGError", message |-> e.text]
    ELSE [status |-> 500, type |-> "InternalServerError", message |-> e.text]
ErrorResponse(e) ==
    IF e.type = "ValidationError"
    THEN [status |-> 400, type |-> "ValidationError", message |-> e.text]
    ELSE IF e.type \in {"OpenAIError", "VectorDBError"}
    THEN [status |-> 503, type |-> e.type,
          message |-> <<"Service temporarily unavailable. Please try again later.">>]
    ELSE IF e.type \in {"RAGError", "RateLimitError"}
    THEN [status |-> 500, type |-> "RAGError",
          message |-> <<"Unable to process your request. Please try again.">>]
    ELSE [status |-> 500, type |-> "InternalServerError",
          message |-> <<"An unexpected error occurred. Please try again later.">>]

\* chat is an async def that never awaits: the event loop runs a handler
\* from its first line to its return before it starts another.
EventLoopFreeThreaded == TRUE
EventLoopFree == running = NoTask

\* ---------------------------------------------------------------- actions

InitLimiter ==
    /\ now = 0
    /\ requests = [k \in Keys |-> <<>>]
    /\ last = NoCall
    /\ admitted = [k \in Keys |-> <<>>]
    /\ checks = [k \in Keys |-> 0]
    /\ grants = [k \in Keys |-> 0]
    /\ fresh = [k \in Keys |-> FALSE]
    /\ denied = [k \in Keys |-> FALSE]

InitTasks ==
    /\ hits = [k \in Keys |-> 0]
    /\ expires = [k \in Keys |-> 0]
    /\ running = NoTask
    /\ pc = [t \in Tasks |-> "idle"]
    /\ key = [t \in Tasks |-> "k1"]
    /\ msg = [t \in Tasks |-> <<>>]
    /\ curTime = [t \in Tasks |-> 0]
    /\ allowed = [t \in Tasks |-> FALSE]
    /\ validated = [t \in Tasks |-> FALSE]
    /\ storeCalls = [t \in Tasks |-> 0]
    /\ context = [t \in Tasks |-> NoContext]
    /\ prompt = [t \in Tasks |-> NoPrompt]
    /\ maxRetries = [t \in Tasks |-> DefaultMaxRetries]
    /\ attempt = [t \in Tasks |-> 0]
    /\ genCalls = [t \in Tasks |-> 0]
    /\ genLog = [t \in Tasks |-> <<>>]
    /\ wakeAt = [t \in Tasks |-> 0]
    /\ raw = [t \in Tasks |-> <<>>]
    /\ answer = [t \in Tasks |-> NoAnswer]
    /\ err = [t \in Tasks |-> NoError]
    /\ response = [t \in Tasks |-> NoResponse]

\* No function call is under study and no error response has been sent.
InitCalls ==
    /\ arg = NoArg
    /\ res = NoResult
    /\ sent = NoSent

Init == InitLimiter /\ InitTasks /\ InitCalls

\* The clock advances (time.time() is read as non-decreasing).
Tick ==
    /\ now < MaxTime
    /\ now' = now + 1
    /\ checks' = [k \in Keys |-> 0]
    /\ grants' = [k \in Keys |-> 0]
    /\ fresh' = [k \in Keys |-> FALSE]
    /\ UNCHANGED callVars
    /\ UNCHANGED <<requests, last, admitted, denied, taskVars>>

\* The history of one is_allowed call for key k that returned ok.
NoteCheck(k, ok, kept) ==
    /\ admitted' = IF ok THEN [admitted EXCEPT ![k] = Append(@, now)] ELSE admitted
    /\ checks' = [checks EXCEPT ![k] = @ + 1]
    /\ grants' = IF ok THEN [grants EXCEPT ![k] = @ + 1] ELSE grants
    /\ fresh' = IF checks[k] = 0 THEN [fresh EXCEPT ![k] = (kept = <<>>)] ELSE fresh
    /\ denied' = [denied EXCEPT ![k] = ~ok]

\* rate_limiter.is_allowed(k, MaxRequests, WindowSeconds)
IsAllowedShared(k) ==
    /\ checks[k] < MaxChecksPerTick
    /\ requests' = [j \in Keys |->
                      IsAllowedDeque(requests[k], now, MaxRequests, WindowSeconds)]
    /\ last' = [op |-> "is_allowed", key |-> k, time |-> now,
                result |-> IF IsAllowedResult(requests[k], now, MaxRequests,
                                              WindowSeconds) THEN 1 ELSE 0,
                afterDenied |-> denied[k]]
    /\ NoteCheck(k, IsAllowedResult(requests[k], now, MaxRequests, WindowSeconds),
                 EvictOld(requests[k], now, WindowSeconds))
    /\ UNCHANGED callVars
    /\ UNCHANGED <<now, taskVars>>
IsAllowed(k) ==
    /\ checks[k] < MaxChecksPerTick
    /\ requests' = [requests EXCEPT
                      ![k] = IsAllowedDeque(@, now, MaxRequests, WindowSeconds)]
    /\ last' = [op |-> "is_allowed", key |-> k, time |-> now,
                result |-> IF IsAllowedResult(requests[k], now, MaxRequests,
                                              WindowSeconds) THEN 1 ELSE 0,
                afterDenied |-> denied[k]]
    /\ NoteCheck(k, IsAllowedResult(requests[k], now, MaxRequests, WindowSeconds),
                 EvictOld(requests[k], now, WindowSeconds))
    /\ UNCHANGED callVars
    /\ UNCHANGED <<now, taskVars>>

\* rate_limiter.get_reset_time(k, WindowSeconds)
GetResetTime(k) ==
    /\ last' = [op |-> "get_reset_time", key |-> k, time |-> now,
                result |-> ResetTime(requests[k], now, WindowSeconds),
                afterDenied |-> denied[k]]
    /\ UNCHANGED callVars
    /\ UNCHANGED <<now, requests, admitted, checks, grants, fresh, denied, taskVars>>

\* get_rate_limit_info for the key k; the value kept is requests_remaining.
GetRateLimitInfo(k) ==
    /\ last' = [op |-> "get_rate_limit_info", key |-> k, time |-> now,
                result |-> RateLimitInfo(requests[k], now).requests_remaining,
                afterDenied |-> denied[k]]
    /\ UNCHANGED callVars
    /\ UNCHANGED <<now, requests, admitted, checks, grants, fresh, denied, taskVars>>

NextLimiter ==
    \/ Tick
    \/ \E k \in Keys : IsAllowed(k)
    \/ \E k \in Keys : GetResetTime(k)
    \/ \E k \in Keys : GetRateLimitInfo(k)

SpecLimiter == Init /\ [][NextLimiter]_vars


\* ------------------------------------------------------- the chat handler

\* A POST /chat arrives: the server creates the task of its handler.
Arrive(t, k, m) ==
    /\ pc[t] = "idle"
    /\ pc' = [pc EXCEPT ![t] = "queued"]
    /\ key' = [key EXCEPT ![t] = k]
    /\ msg' = [msg EXCEPT ![t] = m]
    /\ UNCHANGED callVars
    /\ UNCHANGED decoratorVars
    /\ UNCHANGED <<limiterVars, running, curTime, allowed, response, pipelineVars>>

\* The event loop starts the task of the request, which enters the wrapper
\* of the limit decorator, line 83: the request is counted in the window of
\* its client, and the handler is entered or RateLimitExceeded is raised.
LimitDecorator(t) ==
    /\ pc[t] = "queued"
    /\ EventLoopFree
    /\ running' = t
    /\ LET k == key[t]
           count == WindowHits(hits[k], expires[k], now) + 1
       IN  /\ count <= MaxHits
           /\ hits' = [hits EXCEPT ![k] = count]
           /\ expires' = [expires EXCEPT
                             ![k] = IF count = 1 THEN now + WindowSeconds ELSE @]
           /\ IF DecoratorAdmits(count, MaxRequests)
              THEN /\ pc' = [pc EXCEPT ![t] = "entered"]
                   /\ UNCHANGED response
              ELSE /\ pc' = [pc EXCEPT ![t] = "refused"]
                   /\ \E r \in DecoratorResponses(MaxRequests) :
                          response' = [response EXCEPT ![t] = r]
    /\ UNCHANGED callVars
    /\ UNCHANGED <<limiterVars, key, msg, curTime, allowed, pipelineVars>>

\* The handler starts (start_time and current_time are read in the same
\* tick); is_allowed, lines 24-38: the old timestamps are popped and the
\* count is compared.
ChatRateCheck(t) ==
    /\ pc[t] = "entered"
    /\ curTime' = [curTime EXCEPT ![t] = now]
    /\ requests' = [requests EXCEPT ![key[t]] = EvictOld(@, now, WindowSeconds)]
    /\ IF UnderLimit(EvictOld(requests[key[t]], now, WindowSeconds), MaxRequests)
       THEN /\ pc' = [pc EXCEPT ![t] = "record"]
            /\ UNCHANGED allowed
       ELSE /\ pc' = [pc EXCEPT ![t] = "checked"]
            /\ allowed' = [allowed EXCEPT ![t] = FALSE]
    /\ UNCHANGED callVars
    /\ UNCHANGED decoratorVars
    /\ UNCHANGED <<now, limiterHist, running, key, msg, response, pipelineVars>>

\* is_allowed, lines 41-42: the request is recorded and True returned.
ChatRateRecord(t) ==
    /\ pc[t] = "record"
    /\ requests' = [requests EXCEPT ![key[t]] = Append(@, curTime[t])]
    /\ allowed' = [allowed EXCEPT ![t] = TRUE]
    /\ pc' = [pc EXCEPT ![t] = "checked"]
    /\ UNCHANGED callVars
    /\ UNCHANGED decoratorVars
    /\ UNCHANGED <<now, limiterHist, running, key, msg, curTime, response,
                   pipelineVars>>

\* chat, lines 90-102: the request was not admitted.
ChatRejected(t) ==
    /\ pc[t] = "checked"
    /\ ~Admit(allowed[t])
    /\ response' = [response EXCEPT
                      ![t] = RateLimitedResponse(RateLimitInfo(requests[key[t]], now),
                                                 now)]
    /\ pc' = [pc EXCEPT ![t] = "done"]
    /\ UNCHANGED callVars
    /\ UNCHANGED decoratorVars
    /\ UNCHANGED <<limiterVars, running, key, msg, curTime, allowed, pipelineVars>>

\* chat, line 113, generate_response, line 252: validate_input(query).
Validate(t) ==
    /\ pc[t] = "checked"
    /\ Admit(allowed[t])
    /\ validated' = [validated EXCEPT ![t] = TRUE]
    /\ err' = [err EXCEPT ![t] = PipelineError(InputError(msg[t]))]
    /\ pc' = [pc EXCEPT ![t] = IF InputError(msg[t]) = NoError THEN "retrieve"
                                                              ELSE "failed"]
    /\ UNCHANGED callVars
    /\ UNCHANGED decoratorVars
    /\ UNCHANGED <<limiterVars, running, key, msg, curTime, allowed, response,
                   storeCalls, context, prompt, maxRetries, attempt, genCalls,
                   genLog, wakeAt, raw, answer>>

\* _get_relevant_context, lines 116-127: the query is sent to the store.
StoreQuery(t) ==
    /\ pc[t] = "retrieve"
    /\ storeCalls' = [storeCalls EXCEPT ![t] = @ + 1]
    /\ pc' = [pc EXCEPT ![t] = "storeWait"]
    /\ UNCHANGED callVars
    /\ UNCHANGED decoratorVars
    /\ UNCHANGED <<limiterVars, running, key, msg, curTime, allowed, response,
                   validated, context, prompt, maxRetries, attempt, genCalls,
                   genLog, wakeAt, raw, answer, err>>

\* The store answers or raises; _get_relevant_context, lines 129-160, and
\* generate_response, lines 260-264.
StoreReturn(t, out) ==
    /\ pc[t] = "storeWait"
    /\ IF out.raises
       THEN /\ err' = [err EXCEPT ![t] = PipelineError(RetrievalError(out.exc))]
            /\ pc' = [pc EXCEPT ![t] = "failed"]
            /\ UNCHANGED <<context, prompt, attempt, answer>>
       ELSE /\ context' = [context EXCEPT
                             ![t] = [got |-> TRUE,
                                     found |-> Len(out.matches),
                                     matches |-> RelevantMatches(out.matches)]]
            /\ IF IsEmptyContext(RelevantMatches(out.matches))
               THEN /\ answer' = [answer EXCEPT ![t] = NoInfoAnswer]
                    /\ pc' = [pc EXCEPT ![t] = "finish"]
                    /\ UNCHANGED <<prompt, attempt, err>>
               ELSE IF PromptRaises(RelevantMatches(out.matches))
               THEN /\ err' = [err EXCEPT ![t] = PipelineError(PromptError)]
                    /\ pc' = [pc EXCEPT ![t] = "failed"]
                    /\ UNCHANGED <<prompt, attempt, answer>>
               ELSE /\ prompt' = [prompt EXCEPT
                                    ![t] = ConstructPrompt(msg[t],
                                               Docs(RelevantMatches(out.matches)))]
                    /\ attempt' = [attempt EXCEPT ![t] = 0]
                    /\ pc' = [pc EXCEPT ![t] = "generate"]
                    /\ UNCHANGED <<answer, err>>
    /\ UNCHANGED callVars
    /\ UNCHANGED decoratorVars
    /\ UNCHANGED <<limiterVars, running, key, msg, curTime, allowed, response,
                   validated, storeCalls, maxRetries, genCalls, genLog, wakeAt,
                   raw>>

\* _call_gemini_with_retry, lines 223-233: one model.generate_content call.
GenCall(t) ==
    /\ pc[t] = "generate"
    /\ genCalls' = [genCalls EXCEPT ![t] = @ + 1]
    /\ pc' = [pc EXCEPT ![t] = "genWait"]
    /\ UNCHANGED callVars
    /\ UNCHANGED decoratorVars
    /\ UNCHANGED <<limiterVars, running, key, msg, curTime, allowed, response,
                   validated, storeCalls, context, prompt, maxRetries, attempt,
                   genLog, wakeAt, raw, answer, err>>

\* The model answers or raises; _call_gemini_with_retry, lines 235-244, and
\* generate_response, lines 270-276.
GenReturn(t, out) ==
    /\ pc[t] = "genWait"
    /\ genLog' = [genLog EXCEPT
                    ![t] = Append(@, [ok |-> out.ok, text |-> out.text,
                                      exc |-> out.exc,
                                      sleep |-> IF out.ok \/ LastAttempt(attempt[t],
                                                                         maxRetries[t])
                                                THEN 0 ELSE Backoff(attempt[t])])]
    /\ IF out.ok
       THEN /\ raw' = [raw EXCEPT ![t] = out.text]
            /\ answer' = [answer EXCEPT
                            ![t] = [kind |-> "text",
                                    text |-> SanitizeResponse(out.text)]]
            /\ pc' = [pc EXCEPT ![t] = "finish"]
            /\ UNCHANGED <<err, wakeAt>>
       ELSE IF LastAttempt(attempt[t], maxRetries[t])
       THEN /\ err' = [err EXCEPT
                         ![t] = PipelineError(GenerationError(maxRetries[t],
                                                              out.exc))]
            /\ pc' = [pc EXCEPT ![t] = "failed"]
            /\ UNCHANGED <<raw, answer, wakeAt>>
       ELSE /\ wakeAt' = [wakeAt EXCEPT ![t] = now + Backoff(attempt[t])]
            /\ pc' = [pc EXCEPT ![t] = "sleep"]
            /\ UNCHANGED <<raw, answer, err>>
    /\ UNCHANGED callVars
    /\ UNCHANGED decoratorVars
    /\ UNCHANGED <<limiterVars, running, key, msg, curTime, allowed, response,
                   validated, storeCalls, context, prompt, maxRetries, attempt,
                   genCalls>>

\* time.sleep(2 ** attempt) returns and the loop goes to its next attempt.
Wake(t) ==
    /\ pc[t] = "sleep"
    /\ now >= wakeAt[t]
    /\ attempt' = [attempt EXCEPT ![t] = @ + 1]
    /\ pc' = [pc EXCEPT ![t] = "generate"]
    /\ UNCHANGED callVars
    /\ UNCHANGED decoratorVars
    /\ UNCHANGED <<limiterVars, running, key, msg, curTime, allowed, response,
                   validated, storeCalls, context, prompt, maxRetries, genCalls,
                   genLog, wakeAt, raw, answer, err>>

\* chat, lines 116-133: the answer is returned with the rate limit info.
ChatFinish(t) ==
    /\ pc[t] = "finish"
    /\ response' = [response EXCEPT
                      ![t] = SuccessResponse(answer[t], now - curTime[t],
                                             RateLimitInfo(requests[key[t]], now))]
    /\ pc' = [pc EXCEPT ![t] = "done"]
    /\ UNCHANGED callVars
    /\ UNCHANGED decoratorVars
    /\ UNCHANGED <<limiterVars, running, key, msg, curTime, allowed, pipelineVars>>

\* chat, lines 135-185: the exception of generate_response is answered.
ChatFail(t) ==
    /\ pc[t] = "failed"
    /\ response' = [response EXCEPT ![t] = ErrorResponse(err[t])]
    /\ pc' = [pc EXCEPT ![t] = "done"]
    /\ UNCHANGED callVars
    /\ UNCHANGED decoratorVars
    /\ UNCHANGED <<limiterVars, running, key, msg, curTime, allowed, pipelineVars>>

\* The response is sent, the request's objects are discarded and the task
\* ends: the event loop is free for the next task.
Recycle(t) ==
    /\ pc[t] \in {"done", "refused"}
    /\ running' = NoTask
    /\ pc' = [pc EXCEPT ![t] = "idle"]
    /\ key' = [key EXCEPT ![t] = "k1"]
    /\ msg' = [msg EXCEPT ![t] = <<>>]
    /\ curTime' = [curTime EXCEPT ![t] = 0]
    /\ allowed' = [allowed EXCEPT ![t] = FALSE]
    /\ validated' = [validated EXCEPT ![t] = FALSE]
    /\ storeCalls' = [storeCalls EXCEPT ![t] = 0]
    /\ context' = [context EXCEPT ![t] = NoContext]
    /\ prompt' = [prompt EXCEPT ![t] = NoPrompt]
    /\ attempt' = [attempt EXCEPT ![t] = 0]
    /\ genCalls' = [genCalls EXCEPT ![t] = 0]
    /\ genLog' = [genLog EXCEPT ![t] = <<>>]
    /\ wakeAt' = [wakeAt EXCEPT ![t] = 0]
    /\ raw' = [raw EXCEPT ![t] = <<>>]
    /\ answer' = [answer EXCEPT ![t] = NoAnswer]
    /\ err' = [err EXCEPT ![t] = NoError]
    /\ response' = [response EXCEPT ![t] = NoResponse]
    /\ UNCHANGED callVars
    /\ UNCHANGED decoratorVars
    /\ UNCHANGED <<limiterVars, maxRetries>>

Next ==
    \/ Tick
    \/ \E t \in Tasks, k \in Clients, m \in Messages : Arrive(t, k, m)
    \/ \E t \in Tasks : LimitDecorator(t)
    \/ \E t \in Tasks : ChatRateCheck(t)
    \/ \E t \in Tasks : ChatRateRecord(t)
    \/ \E t \in Tasks : ChatRejected(t)
    \/ \E t \in Tasks : Validate(t)
    \/ \E t \in Tasks : StoreQuery(t)
    \/ \E t \in Tasks, out \in StoreOutcomes : StoreReturn(t, out)
    \/ \E t \in Tasks : GenCall(t)
    \/ \E t \in Tasks, out \in GenOutcomes : GenReturn(t, out)
    \/ \E t \in Tasks : Wake(t)
    \/ \E t \in Tasks : ChatFinish(t)
    \/ \E t \in Tasks : ChatFail(t)
    \/ \E t \in Tasks : Recycle(t)

Spec == Init /\ [][Next]_vars

\* ------------------------------------- _call_gemini_with_retry on its own

\* Largest max_retries tried.
MaxAttemptsBound == 3

\* The call _call_gemini_with_retry(prompt, n) is about to start.
InitRetry ==
    /\ InitLimiter
    /\ hits = [k \in Keys |-> 0]
    /\ expires = [k \in Keys |-> 0]
    /\ running = "t1"
    /\ pc = [t \in Tasks |-> IF t = "t1" THEN "generate" ELSE "idle"]
    /\ key = [t \in Tasks |-> "k1"]
    /\ msg = [t \in Tasks |-> IF t = "t1" THEN MsgSolve ELSE <<>>]
    /\ curTime = [t \in Tasks |-> 0]
    /\ allowed = [t \in Tasks |-> FALSE]
    /\ validated = [t \in Tasks |-> FALSE]
    /\ storeCalls = [t \in Tasks |-> 0]
    /\ context = [t \in Tasks |-> NoContext]
    /\ prompt = [t \in Tasks |->
                   IF t = "t1" THEN ConstructPrompt(MsgSolve, <<TextA>>) ELSE NoPrompt]
    /\ maxRetries \in {[t \in Tasks |-> IF t = "t1" THEN n ELSE DefaultMaxRetries] :
                          n \in 1..MaxAttemptsBound}
    /\ attempt = [t \in Tasks |-> 0]
    /\ genCalls = [t \in Tasks |-> 0]
    /\ genLog = [t \in Tasks |-> <<>>]
    /\ wakeAt = [t \in Tasks |-> 0]
    /\ raw = [t \in Tasks |-> <<>>]
    /\ answer = [t \in Tasks |-> NoAnswer]
    /\ err = [t \in Tasks |-> NoError]
    /\ response = [t \in Tasks |-> NoResponse]
    /\ arg = NoArg
    /\ res = NoResult
    /\ sent = NoSent

\* The clock advances, far enough for the whole backoff schedule.
TickRetry ==
    /\ now < 2 ^ MaxAttemptsBound
    /\ now' = now + 1
    /\ UNCHANGED callVars
    /\ UNCHANGED <<requests, limiterHist, taskVars>>

NextRetry ==
    \/ TickRetry
    \/ \E t \in Tasks : GenCall(t)
    \/ \E t \in Tasks, out \in GenOutcomes : GenReturn(t, out)
    \/ \E t \in Tasks : Wake(t)

SpecRetry == InitRetry /\ [][NextRetry]_vars

\* ------------------------------------------- one request after another,
\* an error response of an earlier one kept beside the later ones

\* The requests come one at a time.
Solo == {"t1"}

\* What is kept of an error response: its type and message, and the text of
\* the exception that caused it.
SentRecord(t) ==
    [type |-> response[t].type, message |-> response[t].message,
     cause |-> err[t].text]

\* An observer takes note of the error response the handler has built.
Note(t) ==
    /\ pc[t] = "done"
    /\ response[t].status >= 400
    /\ sent # SentRecord(t)
    /\ sent' = SentRecord(t)
    /\ UNCHANGED <<limiterVars, taskVars, arg, res>>

NextPair ==
    \/ Tick
    \/ \E t \in Solo, k \in Clients, m \in Messages : Arrive(t, k, m)
    \/ \E t \in Solo : LimitDecorator(t)
    \/ \E t \in Solo : ChatRateCheck(t)
    \/ \E t \in Solo : ChatRateRecord(t)
    \/ \E t \in Solo : ChatRejected(t)
    \/ \E t \in Solo : Validate(t)
    \/ \E t \in Solo : StoreQuery(t)
    \/ \E t \in Solo, out \in StoreOutcomes : StoreReturn(t, out)
    \/ \E t \in Solo : GenCall(t)
    \/ \E t \in Solo, out \in GenOutcomes : GenReturn(t, out)
    \/ \E t \in Solo : Wake(t)
    \/ \E t \in Solo : ChatFinish(t)
    \/ \E t \in Solo : ChatFail(t)
    \/ \E t \in Solo : Note(t)
    \/ \E t \in Solo : Recycle(t)

SpecPair == Init /\ [][NextPair]_vars

\* ------------------------------------------------- one function call alone

\* The call f(v) is about to be made.
InitCall(f, inputs) ==
    /\ InitLimiter
    /\ InitTasks
    /\ arg \in {[kind |-> f, value |-> v] : v \in inputs}
    /\ res = NoResult
    /\ sent = NoSent

\* The call returns r.
Return(f, r) ==
    /\ arg.kind = f
    /\ ~res.done
    /\ res' = [done |-> TRUE, value |-> r]
    /\ UNCHANGED <<limiterVars, taskVars, arg, sent>>

\* The sequences of at most n elements of S.
RECURSIVE SeqsUpTo(_, _)
SeqsUpTo(S, n) ==
    IF n = 0 THEN {<<>>}
    ELSE LET shorter == SeqsUpTo(S, n - 1)
         IN  shorter \cup {Append(q, x) : q \in shorter, x \in S}

\* Largest number of matches the store returns.
MaxMatches == 3

\* The matches index.query may return: with a text and a score of 0.65, 0.7,
\* 0.71 or 0.9, or without a text.
MatchPool ==
    {Match(TRUE, t, TRUE, sc) : t \in {TextA, TextB}, sc \in {65, 70, 71, 90}}
    \cup {Match(FALSE, <<>>, TRUE, 90)}

InitRetrieve == InitCall("get_relevant_context", SeqsUpTo(MatchPool, MaxMatches))

\* _get_relevant_context, lines 129-156.
GetRelevantContext ==
    Return("get_relevant_context", RelevantContext(arg.value))

SpecRetrieve == InitRetrieve /\ [][GetRelevantContext]_vars

\* Largest number of chunks handed to _construct_enhanced_prompt.
MaxChunks == 3

\* n times the character c.
Run(c, n) == [i \in 1..n |-> c]

\* Chunks: 50 characters; the same 50 followed by one more, in two ways; 49
\* of them; a single character; 50 other characters and one more.
ChunkPool ==
    { Run("p", DedupPrefixLength),
      Run("p", DedupPrefixLength) \o <<"a">>,
      Run("p", DedupPrefixLength) \o <<"b">>,
      Run("p", DedupPrefixLength - 1),
      <<"p">>,
      Run("q", DedupPrefixLength) \o <<"a">> }

InitPrompt == InitCall("construct_enhanced_prompt", SeqsUpTo(ChunkPool, MaxChunks))

\* _construct_enhanced_prompt, lines 162-216: unique_context, and the prompt
\* built from it for the query.
ConstructEnhancedPrompt ==
    Return("construct_enhanced_prompt",
           [unique |-> UniqueContext(arg.value),
            prompt |-> ConstructPrompt(MsgSolve, arg.value)])

SpecPrompt == InitPrompt /\ [][ConstructEnhancedPrompt]_vars

\* How far beyond 5000 characters the longest body of a raw text goes.
MaxOver == 3

\* response.text of the model: a body of up to 2 characters, or of 4999 up
\* to 5000 + MaxOver characters, between a head and a tail; the script
\* element of the last head is spelt with a long s and a dotted I.
LongRawTexts ==
    LET heads == { <<>>, <<" ">>, <<"d", "a", "t", "a", ":">>,
                   <<"<", "U+017F", "C", "R", "I", "P", "T", ">", "x", "\n", "<", "/",
                     "s", "c", "r", "U+0130", "p", "t", ">">> }
        tails == { <<>>, <<"b", "\r">> }
        sizes == 0..2 \cup (MaxResponseLength - 1)..(MaxResponseLength + MaxOver)
    IN  {h \o Run("a", n) \o t : h \in heads, n \in sizes, t \in tails}

InitSanitize == InitCall("sanitize_response", LongRawTexts)

\* sanitize_response, lines 139-158.
SanitizeResponseCall == Return("sanitize_response", SanitizeResponse(arg.value))

SpecSanitize == InitSanitize /\ [][SanitizeResponseCall]_vars

\* Largest number of words in a message.
MaxWords == 12

\* Messages of na times "xy", then nb times "Xy", then nc times "z", the
\* words separated by a blank, by a blank and a tab, or by a carriage
\* return and a no-break space; the words are kept beside the message.
WordyMessages ==
    LET words(na, nb, nc) ==
            Run(<<"x", "y">>, na) \o Run(<<"X", "y">>, nb) \o Run(<<"z">>, nc)
        counts == {c \in (0..MaxWords) \X (0..MaxWords) \X (0..MaxWords) :
                       c[1] + c[2] + c[3] <= MaxWords}
    IN  {[words |-> words(c[1], c[2], c[3]),
          message |-> Join(words(c[1], c[2], c[3]), sep)] :
            c \in counts, sep \in {<<" ">>, <<" ", "\t">>, <<"\r", "U+00A0">>}}

InitValidate == InitCall("validate_input", WordyMessages)

\* validate_input, lines 108-137.
ValidateInputCall == Return("validate_input", ValidateInput(arg.value.message))

SpecValidate == InitValidate /\ [][ValidateInputCall]_vars

\* ================================================================= claims

Min(a, b) == IF a <= b THEN a ELSE b

\* The number of entries of s with a value in [lo, hi].
CountIn(s, lo, hi) == Cardinality({i \in DOMAIN s : lo <= s[i] /\ s[i] <= hi})

\* The entries of q not older than t - WindowSeconds.
Live(q, t) == SelectSeq(q, LAMBDA ts : ts >= t - WindowSeconds)

\* C1: for every key, the calls that returned True with an admission time
\* inside any trailing interval [u - WindowSeconds, u] number at most
\* MaxRequests, and the stored window never holds more than MaxRequests
\* timestamps.
C1_SlidingWindowBound ==
    \A k \in Keys :
        /\ Len(requests[k]) <= MaxRequests
        /\ \A u \in Times :
              CountIn(admitted[k], u - WindowSeconds, u) <= MaxRequests

\* A key whose window is full, that was admitted more often than MaxRequests
\* over time, and whose latest check was rejected.
C1_Witness ==
    \E k \in Keys :
        /\ Len(admitted[k]) > MaxRequests
        /\ Len(requests[k]) = MaxRequests
        /\ last.op = "is_allowed" /\ last.key = k /\ last.result = 0

\* C2: from a window with no live timestamp, the checks made for a key
\* within one tick are admitted up to the MaxRequests-th and rejected from
\* the next on; and a first check made after the clock moved more than
\* WindowSeconds past every admitted timestamp of the key is admitted,
\* whether or not rejected checks came in between.
C2_BurstThenRecover ==
    \A k \in Keys :
        /\ fresh[k] => grants[k] = Min(checks[k], MaxRequests)
        /\ ( /\ last.op = "is_allowed" /\ last.key = k /\ last.time = now
             /\ checks[k] = 1
             /\ \A i \in DOMAIN admitted[k] :
                   admitted[k][i] = now \/ admitted[k][i] < now - WindowSeconds )
           => last.result = 1

\* A key admitted MaxRequests times at one instant, then rejected, and
\* admitted again at its first check after the window has passed.
C2_Witness ==
    \E k \in Keys :
        /\ last.op = "is_allowed" /\ last.key = k /\ last.time = now
        /\ last.result = 1 /\ last.afterDenied
        /\ checks[k] = 1
        /\ Len(admitted[k]) = MaxRequests + 1
        /\ \A i \in 1..MaxRequests :
              admitted[k][i] = admitted[k][1] /\ admitted[k][i] < now - WindowSeconds

\* C5: get_reset_time returns the oldest timestamp still inside the window
\* plus WindowSeconds, or the time of the call when no timestamp is still
\* inside the window; in particular a time not earlier than the call.
C5_ResetTimeOfLiveWindow ==
    last.op = "get_reset_time" =>
        LET live == Live(requests[last.key], last.time)
        IN  /\ last.result = IF live = <<>> THEN last.time
                                            ELSE Head(live) + WindowSeconds
            /\ last.result >= last.time


\* C3: the check and the record of is_allowed are not interleaved between
\* two handlers of one client key: never are two of them between their check
\* and their record, and no window ever holds more than MaxRequests
\* timestamps.
C3_AtomicCheckAndRecord ==
    /\ \A k \in Keys : Len(requests[k]) <= MaxRequests
    /\ \A t1, t2 \in Tasks :
          (t1 # t2 /\ key[t1] = key[t2]) => ~(pc[t1] = "record" /\ pc[t2] = "record")

\* One handler has found the last free slot of the window and has not yet
\* recorded its request, while a second request of the same key is waiting.
C3_Witness ==
    \E t1, t2 \in Tasks :
        /\ t1 # t2 /\ key[t1] = key[t2]
        /\ pc[t1] = "record" /\ pc[t2] = "queued"
        /\ Len(requests[key[t1]]) = MaxRequests - 1

\* C4: while a request waits for the store, for the model or in a backoff
\* sleep, the task of a second request that has arrived can take its first
\* step, the one that leads into its handler (the count of its client's
\* window being below the cap of the model, so that only the event loop can
\* hold it back).
C4_NoSerialization ==
    \A t1, t2 \in Tasks :
        (/\ t1 # t2
         /\ pc[t1] \in {"storeWait", "genWait", "sleep"}
         /\ pc[t2] = "queued"
         /\ WindowHits(hits[key[t2]], expires[key[t2]], now) < MaxHits)
            => ENABLED LimitDecorator(t2)

\* C6: _call_gemini_with_retry never calls the model after a successful
\* call nor more than max_retries times; it fails, with the generation
\* error, after exactly max_retries failed calls; it returns after the first
\* successful call, with that call's text.
C6_RetryCount ==
    \A t \in Tasks :
        /\ genCalls[t] <= maxRetries[t]
        /\ Len(genLog[t]) <= genCalls[t]
        /\ \A i \in 1..(Len(genLog[t]) - 1) : ~genLog[t][i].ok
        /\ (pc[t] \in {"failed", "done"} /\ genCalls[t] > 0 /\ err[t] # NoError)
              => /\ genCalls[t] = maxRetries[t]
                 /\ Len(genLog[t]) = maxRetries[t]
                 /\ \A i \in 1..Len(genLog[t]) : ~genLog[t][i].ok
                 /\ err[t].type = "RAGError"
        /\ (pc[t] \in {"finish", "done"} /\ genCalls[t] > 0 /\ err[t] = NoError)
              => /\ Len(genLog[t]) = genCalls[t]
                 /\ genLog[t][genCalls[t]].ok
                 /\ raw[t] = genLog[t][genCalls[t]].text

\* Every call failed: max_retries calls, more than one, then the error.
C6_Witness ==
    \E t \in Tasks :
        /\ pc[t] = "failed" /\ maxRetries[t] > 1
        /\ genCalls[t] = maxRetries[t]
        /\ err[t].type = "RAGError"

\* The second call was the first to succeed: two calls, its text returned.
C6_WitnessSuccess ==
    \E t \in Tasks :
        /\ pc[t] = "finish" /\ maxRetries[t] > 2
        /\ genCalls[t] = 2 /\ ~genLog[t][1].ok /\ raw[t] = genLog[t][2].text

\* C7: validate_input, the store query and the model calls of a request run
\* only once its limiter check has returned True, and a rejected request is
\* answered by the rate limit response, which carries retry_after.
C7_RejectedRunsNoStage ==
    \A t \in Tasks :
        /\ (validated[t] \/ storeCalls[t] > 0 \/ genCalls[t] > 0) => allowed[t]
        /\ (pc[t] = "done" /\ ~allowed[t])
              => /\ response[t].status = 429
                 /\ response[t].type = "RateLimitExceeded"
                 /\ "retry_after" \in DOMAIN response[t]

\* A rejected request that has been answered.
C7_Witness ==
    \E t \in Tasks :
        /\ pc[t] = "done" /\ ~allowed[t]
        /\ response[t].status = 429
        /\ ~validated[t] /\ storeCalls[t] = 0

\* C8: once generate_response has validated a query that validate_input
\* rejects, it has failed with the ValidationError and has made no store
\* query and no model call.
C8_ValidationShortCircuit ==
    \A t \in Tasks :
        (validated[t] /\ ValidateInput(msg[t]) # "ok")
            => /\ pc[t] \in {"failed", "done"}
               /\ err[t].type = "ValidationError"
               /\ storeCalls[t] = 0
               /\ genCalls[t] = 0

\* A request with a rejected message, failed with the ValidationError.
C8_Witness ==
    \E t \in Tasks :
        /\ pc[t] = "failed" /\ validated[t]
        /\ ValidateInput(msg[t]) # "ok"
        /\ err[t].type = "ValidationError"

\* C9: once retrieval has returned no passage, generate_response has
\* returned the fixed message, without an error and without a model call.
C9_EmptyContextShortCircuit ==
    \A t \in Tasks :
        (context[t].got /\ context[t].matches = <<>>)
            => /\ pc[t] \in {"finish", "done"}
               /\ answer[t] = NoInfoAnswer
               /\ err[t] = NoError
               /\ genCalls[t] = 0
               /\ pc[t] = "done" => /\ response[t].status = 200
                                    /\ response[t].answer = NoInfoAnswer

\* The store found matches, all of them below the threshold, and the
\* request was answered.
C9_Witness ==
    \E t \in Tasks :
        /\ context[t].got /\ context[t].found > 0 /\ context[t].matches = <<>>
        /\ pc[t] = "done" /\ storeCalls[t] = 1

\* C10: generate_response fails with a ValidationError, a VectorDBError or
\* a RAGError and with nothing else; with a VectorDBError only after one
\* store query and no model call.
C10_ErrorKinds ==
    \A t \in Tasks :
        /\ err[t].type \in {"none", "ValidationError", "VectorDBError", "RAGError"}
        /\ pc[t] = "failed" => err[t] # NoError
        /\ err[t].type = "VectorDBError"
              => /\ storeCalls[t] = 1
                 /\ genCalls[t] = 0
                 /\ pc[t] \in {"failed", "done"}

\* A TypeError of the prompt construction, raised as a RAGError.
C10_Witness ==
    \E t \in Tasks :
        /\ pc[t] = "failed"
        /\ err[t].type = "RAGError"
        /\ err[t].text[1] = "Unexpected error in RAG pipeline: "
        /\ storeCalls[t] = 1 /\ genCalls[t] = 0

\* A failure of the store query, raised as a VectorDBError.
C10_WitnessStore ==
    \E t \in Tasks :
        pc[t] = "failed" /\ err[t].type = "VectorDBError" /\ storeCalls[t] = 1

\* An error response: the handler answered with a status of 400 or more.
Failed(t) == pc[t] = "done" /\ response[t].status >= 400

\* The texts validate_input raises with, error_handling.py lines 112-137.
ValidationTexts ==
    {"Message cannot be empty",
     "Message is too long. Please keep it under 2000 characters.",
     "Message contains potentially harmful content",
     "Message appears to contain excessive repetition"}

\* C11 (as stated): two handler runs that fail with the same error kind send
\* the same error type and the same message, one fixed string per kind.
C11_OneMessagePerKind ==
    \A t \in Tasks :
        (Failed(t) /\ response[t].type = sent.type)
            => response[t].message = sent.message

\* C11 (amended): two handler runs that fail with the same error kind other
\* than ValidationError send the same type and the same fixed message; a
\* ValidationError response carries one of the four fixed texts of
\* validate_input; no error response carries the exception text of the
\* store or of the model, and only the rate limit response carries a
\* retry-after value.
C11_FixedMessages ==
    \A t \in Tasks :
        Failed(t) =>
            /\ (response[t].type = sent.type
                  /\ response[t].type # "ValidationError")
                   => response[t].message = sent.message
            /\ response[t].type = "ValidationError"
                   => /\ Len(response[t].message) = 1
                      /\ response[t].message[1] \in ValidationTexts
            /\ \A i \in DOMAIN response[t].message :
                   response[t].message[i] \notin ExcTexts
            /\ ("retry_after" \in DOMAIN response[t]) <=> response[t].status = 429

\* Two requests failed in the store with different exception texts and got
\* the same type and message.
C11_Witness ==
    /\ Failed("t1")
    /\ response["t1"].status = 503
    /\ sent.type = "VectorDBError"
    /\ sent.cause # err["t1"].text
    /\ \E x \in ExcTexts, y \in ExcTexts :
         /\ x # y
         /\ sent.cause[Len(sent.cause)] = x
         /\ err["t1"].text[Len(err["t1"].text)] = y
    /\ sent.message = response["t1"].message

\* The positions of the matches that carry a text and reach the threshold.
Kept(ms) == {i \in DOMAIN ms : ms[i].hasText /\ ms[i].score >= SimilarityThreshold}

\* The j-th smallest element of the set of numbers I.
Nth(I, j) == CHOOSE i \in I : Cardinality({k \in I : k < i}) = j - 1

\* C12: the passages _get_relevant_context returns are exactly the matches
\* with a text and a score >= the threshold, in the order of the store, each
\* with its own score.
C12_ThresholdFilter ==
    (arg.kind = "get_relevant_context" /\ res.done) =>
        LET ms == arg.value
            I == Kept(ms)
        IN  /\ Len(res.value.docs) = Cardinality(I)
            /\ Len(res.value.scores) = Cardinality(I)
            /\ \A j \in 1..Cardinality(I) :
                   /\ res.value.docs[j] = ms[Nth(I, j)].text
                   /\ res.value.scores[j] = ms[Nth(I, j)].score

\* Scores 0.9, 0.65, 0.71 gave the 0.9 and 0.71 entries in that order.
C12_Witness ==
    /\ arg.kind = "get_relevant_context" /\ res.done
    /\ Len(arg.value) = 3
    /\ arg.value[1].score = 90 /\ arg.value[2].score = 65
    /\ arg.value[3].score = 71
    /\ \A i \in 1..3 : arg.value[i].hasText
    /\ arg.value[1].text # arg.value[3].text
    /\ res.value.scores = <<90, 71>>
    /\ res.value.docs = <<arg.value[1].text, arg.value[3].text>>

\* The dedup key of a passage: its first 50 characters, the whole text when
\* it is shorter.
KeyOf(text) ==
    IF Len(text) <= DedupPrefixLength THEN text
    ELSE [i \in 1..DedupPrefixLength |-> text[i]]

\* The positions of the passages no earlier passage shares its key with.
FirstOfKey(ds) == {i \in DOMAIN ds : \A j \in 1..(i - 1) : KeyOf(ds[j]) # KeyOf(ds[i])}

\* C13: the assembled context holds exactly the passages that are the first
\* occurrence of their dedup key, in input order; no two of them share a
\* key, and the key of every input passage is the key of one of them.
C13_FirstOccurrenceWins ==
    (arg.kind = "construct_enhanced_prompt" /\ res.done) =>
        LET ds == arg.value
            kept == res.value.unique
            I == FirstOfKey(ds)
        IN  /\ Len(kept) = Cardinality(I)
            /\ \A j \in 1..Cardinality(I) : kept[j] = ds[Nth(I, j)]
            /\ \A j \in DOMAIN kept, k \in DOMAIN kept :
                   j # k => KeyOf(kept[j]) # KeyOf(kept[k])
            /\ \A i \in DOMAIN ds : \E j \in DOMAIN kept : KeyOf(ds[i]) = KeyOf(kept[j])
            /\ res.value.prompt.context = Join(kept, <<"\n", "\n">>)

\* A later passage with another text and the same first 50 characters was
\* dropped; the passage between them was kept.
C13_Witness ==
    /\ arg.kind = "construct_enhanced_prompt" /\ res.done
    /\ Len(arg.value) = 3
    /\ arg.value[1] # arg.value[3]
    /\ KeyOf(arg.value[1]) = KeyOf(arg.value[3])
    /\ KeyOf(arg.value[1]) # KeyOf(arg.value[2])
    /\ Len(arg.value[2]) < DedupPrefixLength
    /\ res.value.unique = <<arg.value[1], arg.value[2]>>

\* C14 (as stated): the text sanitize_response returns has at most 5000
\* characters.
C14_AtMost5000 ==
    (arg.kind = "sanitize_response" /\ res.done) => Len(res.value) <= 5000

\* C14 (amended): the text sanitize_response returns has at most 5000
\* characters plus the three characters of the ellipsis marker, and when it
\* has more than 5000 it ends with the marker.
C14_AtMost5000PlusMarker ==
    (arg.kind = "sanitize_response" /\ res.done) =>
        /\ Len(res.value) <= 5000 + 3
        /\ Len(res.value) > 5000 =>
               SubSeq(res.value, Len(res.value) - 2, Len(res.value)) = <<".", ".", ".">>

\* A raw text of more than 5000 characters came back 5003 characters long.
C14_Witness ==
    /\ arg.kind = "sanitize_response" /\ res.done
    /\ Len(arg.value) > 5000
    /\ Len(res.value) = 5003

\* How often the word w occurs in the list ws.
Occurrences(ws, w) == Cardinality({i \in DOMAIN ws : ws[i] = w})

\* C15: a message that passes the emptiness, length and pattern checks fails
\* on repetition exactly when it has more than 10 words and some word makes
\* up more than half of them; with 10 words or fewer, or with no word above
\* half (exactly half passes), validate_input returns.
C15_RepetitionRule ==
    (/\ arg.kind = "validate_input" /\ res.done
     /\ res.value \notin {"Message cannot be empty",
                          "Message is too long. Please keep it under 2000 characters.",
                          "Message contains potentially harmful content"}) =>
        LET ws == arg.value.words
            heavy == \E i \in DOMAIN ws : 2 * Occurrences(ws, ws[i]) > Len(ws)
        IN  IF Len(ws) > 10 /\ heavy
            THEN res.value = "Message appears to contain excessive repetition"
            ELSE res.value = "ok"

\* An 11-word message with one word 6 times failed on repetition.
C15_Witness ==
    /\ arg.kind = "validate_input" /\ res.done
    /\ Len(arg.value.words) = 11
    /\ \E i \in 1..11 : Occurrences(arg.value.words, arg.value.words[i]) = 6
    /\ res.value = "Message appears to contain excessive repetition"

\* A 12-word message with one word 6 times, and a 10-word message of one
\* word only, passed.
C15_WitnessHalf ==
    /\ arg.kind = "validate_input" /\ res.done
    /\ \/ /\ Len(arg.value.words) = 12
          /\ \E i \in 1..12 : Occurrences(arg.value.words, arg.value.words[i]) = 6
       \/ /\ Len(arg.value.words) = 10
          /\ Occurrences(arg.value.words, arg.value.words[1]) = 10
    /\ res.value = "ok"

\* The timestamps of the deque q that have not expired at time t.
Unexpired(q, t) == SelectSeq(q, LAMBDA ts : ~(ts < t - WindowSeconds))

\* A step of SpecLimiter that leaves the clock alone is a call of the limiter,
\* and last' tells which one and for which key.

\* C16: an is_allowed call that returns False leaves the key's window as it
\* was, less the expired timestamps (the current time is not appended); a
\* call that returns True appends exactly one timestamp, the current time.
C16_RejectedRecordsNothing ==
    [][(now' = now /\ last'.op = "is_allowed") =>
          IF last'.result = 0
          THEN requests'[last'.key] = Unexpired(requests[last'.key], now)
          ELSE requests'[last'.key] =
                   Append(Unexpired(requests[last'.key], now), now)]_vars

\* A key was rejected twice in a row, the second time at a time later than
\* every timestamp of its window, and the window holds no more than the
\* admitted requests.
C16_Witness ==
    /\ last.op = "is_allowed" /\ last.result = 0 /\ last.afterDenied
    /\ last.time = now
    /\ Len(requests[last.key]) = MaxRequests
    /\ \A i \in DOMAIN requests[last.key] : requests[last.key][i] < now
    /\ checks[last.key] = 1

\* The sum of the sleeps of the first n entries of a generation log.
RECURSIVE SleptIn(_, _)
SleptIn(log, n) == IF n = 0 THEN 0 ELSE SleptIn(log, n - 1) + log[n].sleep

\* C17: the failed attempt of index a that is not the last one is followed
\* by a sleep of 2^a, which is over before attempt a+1 starts; no sleep
\* follows the last failed attempt or a successful one; n failed attempts
\* out of n sleep 2^(n-1) - 1 in total, and the error raised reports the
\* error of the last attempt.
C17_BackoffSchedule ==
    \A t \in Tasks :
        LET n == maxRetries[t]
            log == genLog[t]
        IN  /\ \A i \in DOMAIN log :
                   log[i].sleep = IF ~log[i].ok /\ i < n THEN 2 ^ (i - 1) ELSE 0
            /\ pc[t] = "sleep" => /\ log[Len(log)].sleep = 2 ^ attempt[t]
                                  /\ wakeAt[t] <= now + 2 ^ attempt[t]
                                  /\ wakeAt[t] >= SleptIn(log, Len(log))
            /\ pc[t] \in {"generate", "genWait"} =>
                   /\ Len(log) = attempt[t]
                   /\ now >= SleptIn(log, Len(log))
                   /\ attempt[t] > 0 => now >= wakeAt[t]
            /\ pc[t] = "failed" =>
                   /\ Len(log) = n
                   /\ SleptIn(log, n) = 2 ^ (n - 1) - 1
                   /\ now >= 2 ^ (n - 1) - 1
                   /\ err[t].type = "RAGError"
                   /\ err[t].text[Len(err[t].text)] = log[n].exc

\* Three attempts out of three failed, the last two with different errors:
\* the task slept 1 and 2, three units went by and the error raised carries
\* the third error.
C17_Witness ==
    /\ pc["t1"] = "failed"
    /\ maxRetries["t1"] = 3
    /\ Len(genLog["t1"]) = 3
    /\ genLog["t1"][1].sleep = 1 /\ genLog["t1"][2].sleep = 2
    /\ genLog["t1"][3].sleep = 0
    /\ now = 3
    /\ genLog["t1"][2].exc # genLog["t1"][3].exc
    /\ err["t1"].text[4] = genLog["t1"][3].exc

\* C18: after a rejected check for a key, a check for that key made at the
\* very time get_reset_time returns for it (only rejected checks for the key,
\* or none, in between, so the key's deque is the one get_reset_time read)
\* is admitted.
C18_RetryAfterSufficient ==
    [][\A k \in Keys :
          (/\ IsAllowed(k)
           /\ denied[k]
           /\ now = ResetTime(requests[k], now, WindowSeconds))
              => last'.result = 1]_vars

\* C19: the timestamps stored for a key are in non-decreasing order, and
\* right after is_allowed(k) at time now none of k's timestamps is older
\* than now - WindowSeconds.
C19_WindowOrdered ==
    /\ \A k \in Keys : \A i \in DOMAIN requests[k], j \in DOMAIN requests[k] :
           i < j => requests[k][i] <= requests[k][j]
    /\ last.op = "is_allowed" =>
           \A i \in DOMAIN requests[last.key] :
               ~(requests[last.key][i] < last.time - WindowSeconds)

\* One is_allowed call evicted two expired timestamps from the head and
\* recorded its own.
C19_Witness ==
    /\ last.op = "is_allowed" /\ last.time = now /\ last.result = 1
    /\ requests[last.key] = <<now>>
    /\ Len(admitted[last.key]) = 3
    /\ admitted[last.key][1] < now - WindowSeconds
    /\ admitted[last.key][2] < now - WindowSeconds
    /\ \E k \in Keys : k # last.key /\ Len(requests[k]) = 2
                         /\ requests[k][1] < requests[k][2]

\* C20: is_allowed, get_reset_time and get_rate_limit_info for a key leave
\* the timestamps of every other key as they were, and is_allowed(k) admits
\* exactly when fewer than MaxRequests of k's own timestamps are unexpired
\* at the time of the call.
C20_PerKeyIsolation ==
    [][(now' = now /\ last'.op # "none") =>
          /\ \A j \in Keys \ {last'.key} : requests'[j] = requests[j]
          /\ last'.op = "is_allowed"
                 => (last'.result = 1
                        <=> Len(Unexpired(requests[last'.key], now)) < MaxRequests)]_vars

\* A key was rejected while the other key, whose only timestamp had expired
\* by then, kept it.
C20_Witness ==
    /\ last.op = "is_allowed" /\ last.result = 0 /\ last.time = now
    /\ \E j \in Keys \ {last.key} :
          /\ Len(requests[j]) = 1
          /\ requests[j][1] < now - WindowSeconds
          /\ admitted[j] = requests[j]

\* C21: in every state of the limiter and for every key, the current_requests
\* get_rate_limit_info reports at time now is the number of timestamps
\* is_allowed would count at that time (those its eviction leaves), and
\* requests_remaining is 0 exactly when an is_allowed call made now with the
\* configured limit would return False.
C21_InfoAgreesWithLimiter ==
    \A k \in Keys :
        LET info == RateLimitInfo(requests[k], now)
        IN  /\ info.current_requests = Len(EvictOld(requests[k], now, WindowSeconds))
            /\ info.requests_remaining = 0
                   <=> ~IsAllowedResult(requests[k], now, MaxRequests, WindowSeconds)

====
